---------------------------- MODULE Spec2Model ----------------------------
(***************************************************************************)
(* easyduration: the EasyDuration extension trait (src/src/lib.rs).        *)
(*                                                                         *)
(* Integers are modelled at their machine width, as little-endian          *)
(* sequences of bytes: an input of an N-bit type is its N/8-byte two's     *)
(* complement pattern, the seconds counter of a Duration is 8 bytes.       *)
(* A call is one step: the caller picks a type, an input and a method,     *)
(* and the method's outcome (a Duration, or a panic) is recorded.          *)
(***************************************************************************)
EXTENDS Integers, Sequences, FiniteSets, TLC

\* How far around each boundary value the inputs are enumerated.
MaxDelta == 2

---------------------------------------------------------------------------
(* Machine integers *)

Base == 256

Types == {"u8", "u16", "u32", "u64", "i8", "i16", "i32", "i64"}

SignedTypes == {"i8", "i16", "i32", "i64"}

\* Width of a type in bytes.
Width(ty) ==
    CASE ty \in {"u8", "i8"} -> 1
      [] ty \in {"u16", "i16"} -> 2
      [] ty \in {"u32", "i32"} -> 4
      [] ty \in {"u64", "i64"} -> 8

Zeros(k) == [i \in 1..k |-> 0]

\* a + c modulo Base^Len(a), for a small (possibly negative) c.
RECURSIVE WrappingAddSmall(_, _)
WrappingAddSmall(a, c) ==
    IF a = <<>> THEN <<>>
    ELSE LET t == a[1] + c
         IN  <<t % Base>> \o WrappingAddSmall(Tail(a), t \div Base)

\* The carry out of a + c at the width of a (0 when the sum fits).
RECURSIVE CarryOut(_, _)
CarryOut(a, c) ==
    IF a = <<>> THEN c ELSE CarryOut(Tail(a), (a[1] + c) \div Base)

\* Bitwise complement.
BitNot(a) == [i \in 1..Len(a) |-> (Base - 1) - a[i]]

\* Two's complement negation at the width of a (iN::wrapping_neg).
WrappingNeg(a) == WrappingAddSmall(BitNot(a), 1)

\* The sign bit of a two's complement pattern.
SignBit(a) == a[Len(a)] >= Base \div 2

\* Widening of an unsigned value to k bytes (uN -> u64: `into`, `as u64`).
ZeroExtend(a, k) == a \o Zeros(k - Len(a))

---------------------------------------------------------------------------
(* std::time::Duration, as far as the trait uses it *)

NanosPerSec == 1000000000

\* Duration::from_secs(secs): whole seconds, no sub-second part.
from_secs(secs) == [secs |-> secs, nanos |-> 0]

\* The outcome of a call: a returned Duration, or a panic raised at
\* stage `at` (0: inside seconds(); k: at the k-th multiplication).
NoDuration == [secs |-> <<>>, nanos |-> 0]

Returned(d) == [ok |-> TRUE, dur |-> d, why |-> "", at |-> 0]

Panicked(why, at) == [ok |-> FALSE, dur |-> NoDuration, why |-> why, at |-> at]

\* a * m + carry over the bytes of a; the last element of the result is the
\* carry out of the top byte (u64::checked_mul's overflow).
RECURSIVE MulSmall(_, _, _)
MulSmall(a, m, carry) ==
    IF a = <<>> THEN <<carry>>
    ELSE LET t == a[1] * m + carry
         IN  <<t % Base>> \o MulSmall(Tail(a), m, t \div Base)

\* Faulty variant of u64_checked_mul: u64::wrapping_mul, never None.
u64_wrapping_mul(a, rhs) ==
    [some |-> TRUE, val |-> SubSeq(MulSmall(a, rhs, 0), 1, Len(a))]

\* u64::checked_mul(a, rhs): None when the product leaves 64 bits.
u64_checked_mul(a, rhs) ==
    LET p == MulSmall(a, rhs, 0)
    IN  IF p[Len(p)] = 0
        THEN [some |-> TRUE, val |-> SubSeq(p, 1, Len(a))]
        ELSE [some |-> FALSE, val |-> <<>>]

\* u64::checked_add(a, c): None when the sum leaves 64 bits.
u64_checked_add(a, c) ==
    IF CarryOut(a, c) = 0
    THEN [some |-> TRUE, val |-> WrappingAddSmall(a, c)]
    ELSE [some |-> FALSE, val |-> <<>>]

\* Duration::checked_mul(d, rhs: u32).
checked_mul(d, rhs) ==
    LET total_nanos == d.nanos * rhs
        extra_secs  == total_nanos \div NanosPerSec
        nanos       == total_nanos % NanosPerSec
        s           == u64_checked_mul(d.secs, rhs)
        t           == IF s.some THEN u64_checked_add(s.val, extra_secs) ELSE s
    IN  IF t.some
        THEN [some |-> TRUE, val |-> [secs |-> t.val, nanos |-> nanos]]
        ELSE [some |-> FALSE, val |-> NoDuration]

\* `r * rhs` (impl Mul<u32> for Duration) as the k-th multiplication of a
\* method body: checked_mul(..).expect(..); a panic in r propagates.
Mul(r, rhs, k) ==
    IF ~r.ok THEN r
    ELSE LET m == checked_mul(r.dur, rhs)
         IN  IF m.some THEN Returned(m.val)
             ELSE Panicked("overflow when multiplying duration by scalar", k)

---------------------------------------------------------------------------
(* The per-type implementations of seconds() *)

\* impl EasyDuration for u8: Duration::from_secs(self.into())
seconds_u8(a) == Returned(from_secs(ZeroExtend(a, 8)))

\* Faulty variant of seconds_u16: narrows to the low byte (`self as u8`).
seconds_u16_low_byte(a) == Returned(from_secs(ZeroExtend(SubSeq(a, 1, 1), 8)))

\* impl EasyDuration for u16: Duration::from_secs(self.into())
seconds_u16(a) == Returned(from_secs(ZeroExtend(a, 8)))

\* impl EasyDuration for u32: Duration::from_secs(self.into())
seconds_u32(a) == Returned(from_secs(ZeroExtend(a, 8)))

\* impl EasyDuration for u64: Duration::from_secs(self)
seconds_u64(a) == Returned(from_secs(a))

\* Faulty variant of unsigned_abs: the pattern reinterpreted (`self as uN`).
unsigned_abs_reinterpret(a) == a

\* iN::unsigned_abs: the magnitude as uN, computed by wrapping negation,
\* so that iN::MIN gives 2^(N-1).
unsigned_abs(a) == IF SignBit(a) THEN WrappingNeg(a) ELSE a

\* impl EasyDuration for i8: Duration::from_secs(self.unsigned_abs() as u64)
seconds_i8(a) == Returned(from_secs(ZeroExtend(unsigned_abs(a), 8)))

\* impl EasyDuration for i16: Duration::from_secs(self.unsigned_abs() as u64)
seconds_i16(a) == Returned(from_secs(ZeroExtend(unsigned_abs(a), 8)))

\* Faulty variant of abs: the value itself (the call to abs() left out).
abs_left_out(a, b) == [ok |-> TRUE, val |-> a]

\* iN::abs, which stays in iN. -iN::MIN is not representable: a build with
\* overflow checks (debug) panics, a build without (release) wraps and
\* returns iN::MIN.
abs(a, b) ==
    IF ~SignBit(a) THEN [ok |-> TRUE, val |-> a]
    ELSE LET neg == WrappingNeg(a)
         IN  IF SignBit(neg) /\ b = "debug"
             THEN [ok |-> FALSE, val |-> a]
             ELSE [ok |-> TRUE, val |-> neg]

\* u64::try_from(iN): Err for a negative value, else the value widened.
try_into_u64(a) ==
    IF SignBit(a) THEN [ok |-> FALSE, val |-> <<>>]
    ELSE [ok |-> TRUE, val |-> ZeroExtend(a, 8)]

\* let secs = self.abs().try_into().unwrap(); Duration::from_secs(secs)
seconds_abs_try_into(a, b) ==
    LET m == abs(a, b)
    IN  IF ~m.ok THEN Panicked("attempt to negate with overflow", 0)
        ELSE LET c == try_into_u64(m.val)
             IN  IF ~c.ok
                 THEN Panicked("called Result::unwrap() on an Err value", 0)
                 ELSE Returned(from_secs(c.val))

\* impl EasyDuration for i32
seconds_i32(a, b) == seconds_abs_try_into(a, b)

\* impl EasyDuration for i64
seconds_i64(a, b) == seconds_abs_try_into(a, b)

---------------------------------------------------------------------------
(* The trait: seconds() per type, the other methods by default *)

seconds(t, a, b) ==
    CASE t = "u8"  -> seconds_u8(a)
      [] t = "u16" -> seconds_u16(a)
      [] t = "u32" -> seconds_u32(a)
      [] t = "u64" -> seconds_u64(a)
      [] t = "i8"  -> seconds_i8(a)
      [] t = "i16" -> seconds_i16(a)
      [] t = "i32" -> seconds_i32(a, b)
      [] t = "i64" -> seconds_i64(a, b)

\* self.seconds() * 60
minutes(t, a, b) == Mul(seconds(t, a, b), 60, 1)

\* Faulty variant of hours: one factor of 60 left out.
hours_one_factor(t, a, b) == Mul(seconds(t, a, b), 60, 1)

\* self.seconds() * 60 * 60
hours(t, a, b) == Mul(Mul(seconds(t, a, b), 60, 1), 60, 2)

\* Faulty variant of days: the factor 24 applied to minutes.
days_of_minutes(t, a, b) == Mul(Mul(seconds(t, a, b), 60, 1), 24, 2)

\* self.seconds() * 60 * 60 * 24
days(t, a, b) == Mul(Mul(Mul(seconds(t, a, b), 60, 1), 60, 2), 24, 3)

\* self.days() * 365
years(t, a, b) == Mul(days(t, a, b), 365, 4)

---------------------------------------------------------------------------
(* The inputs a caller can pass: every pattern within MaxDelta of a        *)
(* boundary of the type or of a method's overflow threshold.               *)

\* The w-byte pattern of a small natural.
RECURSIVE NatBytes(_, _)
NatBytes(v, w) ==
    IF w = 0 THEN <<>> ELSE <<v % Base>> \o NatBytes(v \div Base, w - 1)

\* a \div k for a small k, by long division from the top byte.
RECURSIVE DivSmall(_, _, _)
DivSmall(a, k, rem) ==
    IF a = <<>> THEN <<>>
    ELSE LET t == rem * Base + a[Len(a)]
         IN  DivSmall(SubSeq(a, 1, Len(a) - 1), k, t % k) \o <<t \div k>>

U64Max == [i \in 1..8 |-> Base - 1]

\* The largest seconds count each scaled method can still multiply.
Thresholds ==
    LET m == DivSmall(U64Max, 60, 0)
        h == DivSmall(m, 60, 0)
        d == DivSmall(h, 24, 0)
        y == DivSmall(d, 365, 0)
    IN  {m, h, d, y}

\* iN::MIN (as unsigned: the middle of the range).
MinPattern(w) == Zeros(w - 1) \o <<Base \div 2>>

Anchors(t) ==
    LET w == Width(t)
    IN  {Zeros(w), MinPattern(w)}
        \cup {NatBytes(v, w) : v \in {5, 7, 12}}
        \cup {[i \in 1..w |-> IF i = p THEN 1 ELSE 0] : p \in 1..w}
        \cup {ZeroExtend(MinPattern(v), w) : v \in {u \in {1, 2, 4} : u < w}}
        \cup (IF t \in SignedTypes
              THEN {WrappingNeg(ZeroExtend(MinPattern(v), w)) :
                        v \in {u \in {1, 2, 4} : u < w}}
              ELSE {})
        \cup (IF w = 8 THEN Thresholds ELSE {})
        \cup (IF t = "i64" THEN {WrappingNeg(x) : x \in Thresholds} ELSE {})

Inputs(t) ==
    {WrappingAddSmall(a, d) : a \in Anchors(t), d \in -MaxDelta..MaxDelta}

---------------------------------------------------------------------------
(* The state machine: a caller holds a value of one of the eight types     *)
(* (the types are Copy, so it keeps it) and calls the trait's methods on   *)
(* it, one call per step.                                                  *)

VARIABLES
    build,  \* "debug" (overflow checks on) or "release" (off); fixed
    ty,     \* the type of the value the caller holds
    n,      \* the value, as that type's bit pattern
    op,     \* the method last called on it, "none" before the first call
    out     \* the outcome of that call

vars == <<build, ty, n, op, out>>

Init ==
    /\ build \in {"debug", "release"}
    /\ ty \in Types
    /\ n \in Inputs(ty)
    /\ op = "none"
    /\ out = Panicked("no call", 0)

Call(o, r) ==
    /\ op' = o
    /\ out' = r
    /\ UNCHANGED <<build, ty, n>>

CallSeconds == Call("seconds", seconds(ty, n, build))

CallMinutes == Call("minutes", minutes(ty, n, build))

CallHours == Call("hours", hours(ty, n, build))

CallDays == Call("days", days(ty, n, build))

CallYears == Call("years", years(ty, n, build))

Next == CallSeconds \/ CallMinutes \/ CallHours \/ CallDays \/ CallYears

Spec == Init /\ [][Next]_vars

TypeOK ==
    /\ build \in {"debug", "release"}
    /\ op \in {"none", "seconds", "minutes", "hours", "days", "years"}
    /\ ty \in Types
    /\ Len(n) = Width(ty)
    /\ \A i \in 1..Len(n) : n[i] \in 0..(Base - 1)
    /\ out.ok \in BOOLEAN
    /\ out.ok => /\ Len(out.dur.secs) = 8
                 /\ \A i \in 1..8 : out.dur.secs[i] \in 0..(Base - 1)
                 /\ out.dur.nanos \in 0..(NanosPerSec - 1)

---------------------------------------------------------------------------
(* Reference arithmetic on unbounded naturals (little-endian bytes with no *)
(* leading zero), used only to state the properties.                       *)

RECURSIVE Trim(_)
Trim(a) ==
    IF a = <<>> THEN <<>>
    ELSE IF a[Len(a)] = 0 THEN Trim(SubSeq(a, 1, Len(a) - 1)) ELSE a

RECURSIVE BigAdd(_, _, _)
BigAdd(a, b, carry) ==
    IF a = <<>> /\ b = <<>> THEN (IF carry = 0 THEN <<>> ELSE <<carry>>)
    ELSE LET x == IF a = <<>> THEN 0 ELSE a[1]
             y == IF b = <<>> THEN 0 ELSE b[1]
             t == x + y + carry
         IN  <<t % Base>>
             \o BigAdd(IF a = <<>> THEN a ELSE Tail(a),
                       IF b = <<>> THEN b ELSE Tail(b), t \div Base)

\* a - b for a >= b.
RECURSIVE BigSub(_, _, _)
BigSub(a, b, borrow) ==
    IF a = <<>> THEN <<>>
    ELSE LET y == IF b = <<>> THEN 0 ELSE b[1]
             t == a[1] - y - borrow
         IN  <<t % Base>>
             \o BigSub(Tail(a), IF b = <<>> THEN b ELSE Tail(b),
                       IF t < 0 THEN 1 ELSE 0)

\* Schoolbook multiplication.
RECURSIVE BigMul(_, _)
BigMul(a, b) ==
    IF b = <<>> THEN <<>>
    ELSE Trim(BigAdd(SubSeq(MulSmall(a, b[1], 0), 1, Len(a) + 1),
                     <<0>> \o BigMul(a, Tail(b)), 0))

\* The mathematical value of the bit pattern a of type t: sign, magnitude.
Negative(t, a) == t \in SignedTypes /\ SignBit(a)

Magnitude(t, a) ==
    IF Negative(t, a)
    THEN Trim(BigSub(Zeros(Len(a)) \o <<1>>, a, 0))
    ELSE Trim(a)

\* Seconds per unit.
Factor(o) ==
    CASE o = "seconds" -> 1
      [] o = "minutes" -> 60
      [] o = "hours"   -> 3600
      [] o = "days"    -> 86400
      [] o = "years"   -> 31536000

Big(v) == Trim(NatBytes(v, 4))

\* s * Factor(o), unbounded, by one multiplication.
Product(s, o) == BigMul(s, Big(Factor(o)))

Fits64(x) == Len(x) <= 8

Secs(r) == Trim(r.dur.secs)

ScaledOps == {"minutes", "hours", "days", "years"}

\* The method o as a function of the type, the pattern and the build.
Method(o, t, a, b) ==
    CASE o = "seconds" -> seconds(t, a, b)
      [] o = "minutes" -> minutes(t, a, b)
      [] o = "hours"   -> hours(t, a, b)
      [] o = "days"    -> days(t, a, b)
      [] o = "years"   -> years(t, a, b)

\* Whether the value of pattern a of type t1 is a value of type t2, and its
\* pattern there.
Representable(t1, a, t2) ==
    LET m == Magnitude(t1, a)
        w == Width(t2)
        x == IF Len(m) <= w THEN ZeroExtend(m, w) ELSE <<>>
    IN  /\ Len(m) <= w
        /\ IF t2 \in SignedTypes
           THEN IF Negative(t1, a)
                THEN x = MinPattern(w) \/ ~SignBit(x)
                ELSE ~SignBit(x)
           ELSE ~Negative(t1, a)

Reencode(t1, a, t2) ==
    LET x == ZeroExtend(Magnitude(t1, a), Width(t2))
    IN  IF Negative(t1, a) THEN WrappingNeg(x) ELSE x

SameOutcome(r1, r2) == r1.ok = r2.ok /\ (r1.ok => r1.dur = r2.dur)

---------------------------------------------------------------------------
(* Properties *)

\* C1: on every type, seconds() of a non-negative input n returns, without
\* panicking, a duration of exactly n whole seconds and zero nanoseconds.
C1_SecondsExact ==
    (op = "seconds" /\ ~Negative(ty, n)) =>
        /\ out.ok
        /\ Len(out.dur.secs) = 8
        /\ Secs(out) = Trim(n)
        /\ out.dur.nanos = 0

\* C1 happens: seconds() was called on i64::MAX and returned.
C1_Witness ==
    /\ op = "seconds" /\ ty = "i64"
    /\ n = WrappingAddSmall(MinPattern(8), -1)
    /\ out.ok /\ Secs(out) = n

\* C2: on every signed type, for every n other than the minimum (so that
\* -n is representable), seconds(n) equals seconds(-n), and it is the
\* duration of exactly abs(n) whole seconds.
C2_SignIrrelevant ==
    (op = "seconds" /\ ty \in SignedTypes /\ n # MinPattern(Width(ty))) =>
        /\ out.ok
        /\ out = seconds(ty, WrappingNeg(n), build)
        /\ Secs(out) = Magnitude(ty, n)
        /\ out.dur.nanos = 0

\* C2 happens: seconds() was called on -2i32 and returned 2 seconds.
C2_Witness ==
    /\ op = "seconds" /\ ty = "i32" /\ Negative(ty, n)
    /\ out.ok /\ Secs(out) = Big(2)

\* C3: seconds() of i32::MIN returns 2^31 seconds and seconds() of
\* i64::MIN returns 2^63 seconds; neither call panics.
C3_MinReturnsMagnitude ==
    (op = "seconds" /\ ty \in {"i32", "i64"} /\ n = MinPattern(Width(ty))) =>
        /\ out.ok
        /\ Secs(out) = Magnitude(ty, n)

\* C4: whenever seconds(n) returns s seconds and s*k fits the 64-bit
\* seconds counter, minutes/hours/days/years return exactly s*k whole
\* seconds and zero nanoseconds (k = 60, 3600, 86400, 31536000); so
\* 12.minutes() = 720 s, 5.hours() = 18000 s, 7.days() = 604800 s and
\* 2.years() = 63072000 s.
C4_Examples ==
    { [op |-> "minutes", n |-> 12, secs |-> 720],
      [op |-> "hours",   n |-> 5,  secs |-> 18000],
      [op |-> "days",    n |-> 7,  secs |-> 604800],
      [op |-> "years",   n |-> 2,  secs |-> 63072000] }

C4_ScaledExact ==
    op \in ScaledOps =>
        LET s == seconds(ty, n, build)
        IN  /\ (s.ok /\ Fits64(Product(Secs(s), op))) =>
                  /\ out.ok
                  /\ Secs(out) = Product(Secs(s), op)
                  /\ out.dur.nanos = 0
            /\ \A e \in C4_Examples :
                  (op = e.op /\ ~Negative(ty, n) /\ Trim(n) = Big(e.n)) =>
                      out.ok /\ Secs(out) = Big(e.secs)

\* C4 happens: 2i32.years() returned 63072000 seconds.
C4_Witness ==
    /\ op = "years" /\ ty = "i32" /\ n = NatBytes(2, 4)
    /\ out.ok /\ Secs(out) = Big(63072000)

\* C5: when abs(n)*k exceeds the 64-bit seconds counter the scaled method
\* panics, and every duration a scaled method returns holds exactly the
\* unbounded product abs(n)*k: never a wrapped or truncated one.
C5_OverflowPanics ==
    op \in ScaledOps =>
        LET p == Product(Magnitude(ty, n), op)
        IN  /\ ~Fits64(p) => ~out.ok
            /\ out.ok => Secs(out) = p

\* C5 happens: minutes() on a u64 one above the largest count that still
\* fits panicked in its multiplication.
C5_Witness ==
    /\ op = "minutes" /\ ty = "u64"
    /\ n = WrappingAddSmall(DivSmall(U64Max, 60, 0), 1)
    /\ ~out.ok /\ out.at = 1

\* C6: on i8 and i16 every input, the minimum included, converts without
\* panic: seconds(-128i8) is 128 s, seconds(-32768i16) is 32768 s, and
\* every method returns exactly abs(n) times its factor.
C6_SmallSignedTotal ==
    (op # "none" /\ ty \in {"i8", "i16"}) =>
        /\ out.ok
        /\ Secs(out) = Product(Magnitude(ty, n), op)
        /\ out.dur.nanos = 0
        /\ (op = "seconds" /\ ty = "i8" /\ n = MinPattern(1)) =>
               Secs(out) = Big(128)
        /\ (op = "seconds" /\ ty = "i16" /\ n = MinPattern(2)) =>
               Secs(out) = Big(32768)

\* C6 happens: years() was called on i16::MIN and returned.
C6_Witness ==
    /\ op = "years" /\ ty = "i16" /\ n = MinPattern(2)
    /\ out.ok /\ Secs(out) = Product(Big(32768), "years")

\* C8: on u8, u16, u32, i8, i16 and i32 no input makes any of the five
\* methods panic.
C8_NoPanicUpTo32Bits ==
    (op # "none" /\ Width(ty) <= 4) => out.ok

\* C9: hours, days and years, multiplied in stages, have the outcome of one
\* multiplication of seconds(n) by 3600, 86400, 31536000: they panic at
\* some multiplication exactly when that one product leaves 64 bits, and
\* return it otherwise; a panic inside seconds() is a panic of both.
C9_StagedAsSingle ==
    op \in {"hours", "days", "years"} =>
        LET s == seconds(ty, n, build)
        IN  IF ~s.ok
            THEN ~out.ok /\ out.at = 0
            ELSE LET p == Product(Secs(s), op)
                 IN  /\ out.ok <=> Fits64(p)
                     /\ out.ok => (Secs(out) = p /\ out.dur.nanos = 0)
                     /\ ~out.ok => out.at >= 1

\* C9 happens: years() panicked at an intermediate multiplication.
C9_Witness ==
    /\ op = "years" /\ ~out.ok /\ out.at \in 1..3
    /\ seconds(ty, n, build).ok

\* C10: a value representable in two types gives the same outcome (equal
\* durations, or a panic in both) from each method on either type.
C10_TypesAgree ==
    op # "none" =>
        \A t2 \in Types :
            Representable(ty, n, t2) =>
                SameOutcome(out, Method(op, t2, Reencode(ty, n, t2), build))

=============================================================================
